---- MODULE Spec2Model ----
(***************************************************************************)
(* A model of the soca job queue: the jobs table (README, "Complete SQL    *)
(* Schema") and the enqueue, process and status edge functions.            *)
(* Every awaited store call of a handler is one atomic step; concurrent    *)
(* handler invocations interleave between their store calls.               *)
(*                                                                         *)
(* Time is in seconds and advances from one instant at which a time        *)
(* comparison of the handlers changes its value to a later such instant    *)
(* (a next_retry_at, or the first instant at which a lock is stale).       *)
(* A nullable column is a sequence of length 0 (NULL) or 1 (the value).    *)
(* The updated_at column (set by a trigger on every update, used in no     *)
(* decision of a handler) is not part of the model.  A process call keeps  *)
(* of the selected row the fields it reads later, and `now` until the lock *)
(* update, its last use.                                                   *)
(*                                                                         *)
(* The specifications share the actions: Spec (two workers racing for one  *)
(* submitter's job), SpecSubmit (two submitters racing, two keys, one      *)
(* worker), SpecSolo (one worker, one submitter, a long time), SpecStore   *)
(* (SpecSolo with a store that may reject an outcome update), SpecStatus   *)
(* (Spec with status requests), SpecTimeout (a table that also holds a row *)
(* with a timeout_seconds of its own), SpecKeys (SpecSubmit with a user id *)
(* that is no uuid), and SpecLive and SpecFair (one worker and one         *)
(* submitter under fairness of the process calls and of the clock).        *)
(***************************************************************************)
EXTENDS Integers, Sequences, FiniteSets, TLC

\* ---------------------------------------------------------------- bounds
MaxJobs == 2
MaxTicks == 3
MaxTicksSubmit == 1
MaxTicksSolo == 5
MaxTicksLive == 8
MaxTicksStatus == 2

\* ------------------------------------------------------ program constants
BaseDelaySec == 10
StuckSeconds == 600
DefaultMaxRetries == 3
DefaultTimeoutSeconds == 600

\* ---------------------------------------------------------------- inputs
Workers == {"w1", "w2"}
Submitters == {"e1", "e2"}
Queries == {"", "q"}
UserIds == {"", "u"}
Uuids == {"u"}
KeyUserIds == {"", "anonymous"}
ApiResults == {"r"}

NULL == <<>>
Some(x) == <<x>>

VARIABLES
  jobs,      \* the jobs table: a sequence of rows, a row's id is its index
  clock,     \* NOW()
  ticks,     \* how many times the clock has advanced
  pc,        \* process call of each worker: idle, reap, pick, lock, exec
  forceFail, \* process call: body.force_fail === true
  stuck,     \* process call: the stuckJobs rows still to be handled
  now,       \* process call: the `now` of STEP 2, until its last use (the lock)
  job,       \* process call: the row selected in STEP 2, as read at that time
  epc,       \* enqueue call of each submitter: idle, insert
  ereq,      \* enqueue call: [query, user_id, key]
  resp       \* the response sent by the last step: [to |-> caller, ...], or NoResp

vars == <<jobs, clock, ticks, pc, forceFail, stuck, now, job, epc, ereq, resp>>

NoResp == [to |-> ""]
NoReq == [query |-> "", user_id |-> "", key |-> ""]
NoJob == [id |-> 0]

JobIds == 1..Len(jobs)

\* Math.pow(2, retryCount)
RECURSIVE Pow2(_)
Pow2(n) == IF n <= 0 THEN 1 ELSE 2 * Pow2(n - 1)

\* calculateNextRetryTime: Date.now() + baseDelayMs * 2^retryCount
calculateNextRetryTime(retryCount) == clock + BaseDelaySec * Pow2(retryCount)

\* every enumeration of a finite set (the row order of a select with no order)
SeqsOf(S) ==
  {s \in [1..Cardinality(S) -> S] : \A i, k \in 1..Cardinality(S) : s[i] = s[k] => i = k}

\* .update(fields).eq('id', id): the table with row id's fields overwritten
UpdateRow(id, fields) ==
  [jobs EXCEPT ![id] = [f \in DOMAIN @ |-> IF f \in DOMAIN fields THEN fields[f] ELSE @[f]]]

Init ==
  /\ jobs = <<>>
  /\ clock = 0
  /\ ticks = 0
  /\ pc = [p \in Workers |-> "idle"]
  /\ forceFail = [p \in Workers |-> FALSE]
  /\ stuck = [p \in Workers |-> <<>>]
  /\ now = [p \in Workers |-> 0]
  /\ job = [p \in Workers |-> NoJob]
  /\ epc = [e \in Submitters |-> "idle"]
  /\ ereq = [e \in Submitters |-> NoReq]
  /\ resp = NoResp

\* ================================================================ enqueue

\* user_id ? `${user_id}:${query}` : `anonymous:${query}`
IdempotencyKey(user_id, query) ==
  IF user_id # "" THEN user_id \o ":" \o query ELSE "anonymous:" \o query

\* a lookup that forgets the jobs being processed
ActiveStatusesPendingOnly == {"pending"}

\* .eq('idempotency_key', key).in('status', ['pending', 'processing'])
ActiveStatuses == {"pending", "processing"}
ActiveWithKey(key) ==
  {i \in JobIds : jobs[i].idempotency_key = key /\ jobs[i].status \in ActiveStatuses}

\* a table without the UNIQUE constraint
NoUniqueConstraint(key) == FALSE

\* idempotency_key TEXT UNIQUE: an insert of a key some row holds is rejected
UniqueViolation(key) == \E i \in JobIds : jobs[i].idempotency_key = key

\* an insert that starts the job with one retry already counted
NewRowCountedRetry(id, req) ==
  [ id |-> id,
    user_id |-> IF req.user_id # "" THEN Some(req.user_id) ELSE NULL,
    idempotency_key |-> req.key,
    query |-> req.query,
    result |-> NULL,
    error_message |-> NULL,
    status |-> "pending",
    retry_count |-> 1,
    max_retries |-> DefaultMaxRetries,
    next_retry_at |-> NULL,
    timeout_seconds |-> DefaultTimeoutSeconds,
    locked_at |-> NULL,
    locked_by |-> NULL,
    created_at |-> clock,
    completed_at |-> NULL ]

\* the row an insert creates: the inserted fields and the column defaults
NewRow(id, req) ==
  [ id |-> id,
    user_id |-> IF req.user_id # "" THEN Some(req.user_id) ELSE NULL,
    idempotency_key |-> req.key,
    query |-> req.query,
    result |-> NULL,
    error_message |-> NULL,
    status |-> "pending",
    retry_count |-> 0,
    max_retries |-> DefaultMaxRetries,
    next_retry_at |-> NULL,
    timeout_seconds |-> DefaultTimeoutSeconds,
    locked_at |-> NULL,
    locked_by |-> NULL,
    created_at |-> clock,
    completed_at |-> NULL ]

\* enqueue steps 1-5: parse, validate, compute the key, look up an active job
EnqueueLookup(e, query, user_id) ==
  /\ epc[e] = "idle"
  /\ LET key == IdempotencyKey(user_id, query)
         found == ActiveWithKey(key)
     IN IF query = ""
        THEN /\ resp' = [to |-> e, code |-> 400, error |-> "Query is required"]
             /\ UNCHANGED <<epc, ereq>>
        ELSE IF Cardinality(found) = 1   \* .single(): data only for exactly one row
        THEN LET i == CHOOSE i \in found : TRUE
             IN /\ resp' =
                     [to |-> e, code |-> 200, message |-> "Job already exists",
                      job_id |-> jobs[i].id, status |-> jobs[i].status]
                /\ UNCHANGED <<epc, ereq>>
        ELSE /\ epc' = [epc EXCEPT ![e] = "insert"]
             /\ ereq' = [ereq EXCEPT ![e] = [query |-> query, user_id |-> user_id, key |-> key]]
             /\ resp' = NoResp
  /\ UNCHANGED <<jobs, clock, ticks, pc, forceFail, stuck, now, job>>

\* user_id UUID: an insert of a user_id that is no uuid is rejected
InvalidUuid(user_id) == user_id # "" /\ user_id \notin Uuids

\* enqueue steps 6-7: insert the row, answer 201 or, on insertError, 500
EnqueueInsert(e) ==
  /\ epc[e] = "insert"
  /\ IF UniqueViolation(ereq[e].key) \/ InvalidUuid(ereq[e].user_id)
     THEN /\ resp' = [to |-> e, code |-> 500, error |-> "Failed to create job"]
          /\ UNCHANGED jobs
     ELSE /\ Len(jobs) < MaxJobs
          /\ jobs' = Append(jobs, NewRow(Len(jobs) + 1, ereq[e]))
          /\ resp' =
               [to |-> e, code |-> 201, message |-> "Job created successfully",
                job_id |-> Len(jobs) + 1, status |-> "pending"]
  /\ epc' = [epc EXCEPT ![e] = "idle"]
  /\ ereq' = [ereq EXCEPT ![e] = NoReq]
  /\ UNCHANGED <<clock, ticks, pc, forceFail, stuck, now, job>>

\* ========================================================== direct inserts

\* timeout_seconds of rows that are inserted with a value of their own
DirectTimeouts == {900}
DirectKey == "direct"

\* INSERT INTO jobs (idempotency_key, query, timeout_seconds): a row written
\* to the table by SQL, with timeout_seconds given and every other column
\* left to its default
SqlInsert(timeout_seconds) ==
  /\ ~UniqueViolation(DirectKey)
  /\ Len(jobs) < MaxJobs
  /\ jobs' = Append(jobs,
       [NewRow(Len(jobs) + 1, [query |-> "q", user_id |-> "", key |-> DirectKey])
          EXCEPT !.timeout_seconds = timeout_seconds])
  /\ resp' = NoResp
  /\ UNCHANGED <<clock, ticks, pc, forceFail, stuck, now, job, epc, ereq>>

\* ================================================================ process

\* a STEP 1 select that filters on the wrong status
StuckRowsWrongStatus ==
  {i \in JobIds : /\ jobs[i].status = "pending"
                  /\ jobs[i].locked_at # NULL
                  /\ jobs[i].locked_at[1] < clock - StuckSeconds}

\* STEP 1 select: .eq('status', 'processing').lt('locked_at', now - 600 s)
StuckRows ==
  {i \in JobIds : /\ jobs[i].status = "processing"
                  /\ jobs[i].locked_at # NULL
                  /\ jobs[i].locked_at[1] < clock - StuckSeconds}

\* .select('id, retry_count, max_retries')
StuckView(i) ==
  [id |-> jobs[i].id, retry_count |-> jobs[i].retry_count, max_retries |-> jobs[i].max_retries]

\* STEP 1 update of a stuck job that used up its retries
ReapDeadFields ==
  [ status |-> "dead_letter",
    error_message |-> Some("Job timed out after maximum retries"),
    locked_at |-> NULL,
    locked_by |-> NULL,
    completed_at |-> Some(clock) ]

\* a reaper reset that also puts the job at the back of the queue
ReapRetryFieldsRequeue(stuckJob) ==
  [ status |-> "pending",
    error_message |-> Some("Job timed out, will retry"),
    retry_count |-> stuckJob.retry_count + 1,
    next_retry_at |-> Some(calculateNextRetryTime(stuckJob.retry_count)),
    locked_at |-> NULL,
    locked_by |-> NULL,
    created_at |-> clock ]

\* STEP 1 update of a stuck job that is retried
ReapRetryFields(stuckJob) ==
  [ status |-> "pending",
    error_message |-> Some("Job timed out, will retry"),
    retry_count |-> stuckJob.retry_count + 1,
    next_retry_at |-> Some(calculateNextRetryTime(stuckJob.retry_count)),
    locked_at |-> NULL,
    locked_by |-> NULL ]

\* a STEP 2 select that forgets the failed jobs
EligiblePendingOnly ==
  {i \in JobIds : /\ jobs[i].status \in {"pending"}
                  /\ (jobs[i].next_retry_at = NULL \/ jobs[i].next_retry_at[1] <= clock)
                  /\ jobs[i].locked_at = NULL}

\* STEP 2 select: .in('status', ['pending','failed'])
\*   .or(next_retry_at.is.null, next_retry_at.lte.now).is('locked_at', null)
Eligible ==
  {i \in JobIds : /\ jobs[i].status \in {"pending", "failed"}
                  /\ (jobs[i].next_retry_at = NULL \/ jobs[i].next_retry_at[1] <= clock)
                  /\ jobs[i].locked_at = NULL}

\* an order by created_at descending
Newest(S) == {i \in S : \A k \in S : jobs[i].created_at >= jobs[k].created_at}

\* .order('created_at', { ascending: true }).limit(1): a row of least created_at
Oldest(S) == {i \in S : \A k \in S : jobs[i].created_at <= jobs[k].created_at}

\* the fields of the selected row (select('*')) that the handler reads later
JobView(i) ==
  [ id |-> jobs[i].id, query |-> jobs[i].query,
    retry_count |-> jobs[i].retry_count, max_retries |-> jobs[i].max_retries ]

\* the lock update's filter: .eq('id', job.id).in('status', ['pending', 'failed'])
LockMatches(id) == jobs[id].status \in {"pending", "failed"}

\* the lock update's fields
LockFields(p) ==
  [status |-> "processing", locked_at |-> Some(now[p]), locked_by |-> Some(p)]

\* a STEP 4 update that leaves locked_by as it is
SuccessFieldsKeepLockedBy(apiResult) ==
  [ status |-> "completed",
    result |-> Some(apiResult),
    locked_at |-> NULL,
    completed_at |-> Some(clock) ]

\* STEP 4 update
SuccessFields(apiResult) ==
  [ status |-> "completed",
    result |-> Some(apiResult),
    locked_at |-> NULL,
    locked_by |-> NULL,
    completed_at |-> Some(clock) ]

\* a STEP 5 test that is off by one
ExhaustedOffByOne(newRetryCount, max_retries) == newRetryCount > max_retries

\* STEP 5: newRetryCount >= job.max_retries
Exhausted(newRetryCount, max_retries) == newRetryCount >= max_retries

\* STEP 5 update, dead letter branch
DeadLetterFields(message, newRetryCount) ==
  [ status |-> "dead_letter",
    error_message |-> Some(message),
    retry_count |-> newRetryCount,
    locked_at |-> NULL,
    locked_by |-> NULL,
    completed_at |-> Some(clock) ]

\* STEP 5 update, retry branch
FailedFields(message, newRetryCount) ==
  [ status |-> "failed",
    error_message |-> Some(message),
    retry_count |-> newRetryCount,
    next_retry_at |-> Some(calculateNextRetryTime(newRetryCount)),
    locked_at |-> NULL,
    locked_by |-> NULL ]

ForcedMessage == "Forced failure for testing retry mechanism"
ApiErrors == {"API returned status 500"}

Idle(p) ==
  /\ pc' = [pc EXCEPT ![p] = "idle"]
  /\ forceFail' = [forceFail EXCEPT ![p] = FALSE]
  /\ stuck' = [stuck EXCEPT ![p] = <<>>]
  /\ now' = [now EXCEPT ![p] = 0]
  /\ job' = [job EXCEPT ![p] = NoJob]

\* a process call starts: force_fail is read, the stuck jobs are selected
ReapSelect(p, ff) ==
  /\ pc[p] = "idle"
  /\ forceFail' = [forceFail EXCEPT ![p] = ff]
  /\ \E s \in SeqsOf({StuckView(i) : i \in StuckRows}) :
       /\ stuck' = [stuck EXCEPT ![p] = s]
       /\ pc' = [pc EXCEPT ![p] = IF Len(s) > 0 THEN "reap" ELSE "pick"]
  /\ resp' = NoResp
  /\ UNCHANGED <<jobs, clock, ticks, now, job, epc, ereq>>

\* one turn of the loop over stuckJobs: the update of one stuck job, by id
ReapUpdate(p) ==
  /\ pc[p] = "reap"
  /\ LET stuckJob == Head(stuck[p])
     IN jobs' = IF stuckJob.retry_count >= stuckJob.max_retries
                THEN UpdateRow(stuckJob.id, ReapDeadFields)
                ELSE UpdateRow(stuckJob.id, ReapRetryFields(stuckJob))
  /\ stuck' = [stuck EXCEPT ![p] = Tail(@)]
  /\ pc' = [pc EXCEPT ![p] = IF Len(stuck[p]) > 1 THEN "reap" ELSE "pick"]
  /\ resp' = NoResp
  /\ UNCHANGED <<clock, ticks, forceFail, now, job, epc, ereq>>

\* a STEP 2 that treats a select without a row as an error
PickAnswersError(p) ==
  /\ pc[p] = "pick"
  /\ IF Eligible = {}
     THEN /\ Idle(p)
          /\ resp' = [to |-> p, code |-> 500, error |-> "Internal server error"]
     ELSE /\ \E i \in Oldest(Eligible) : job' = [job EXCEPT ![p] = JobView(i)]
          /\ now' = [now EXCEPT ![p] = clock]
          /\ pc' = [pc EXCEPT ![p] = "lock"]
          /\ resp' = NoResp
          /\ UNCHANGED <<forceFail, stuck>>
  /\ UNCHANGED <<jobs, clock, ticks, epc, ereq>>

\* STEP 2 select; without a row the call answers "No pending jobs to process"
Pick(p) ==
  /\ pc[p] = "pick"
  /\ IF Eligible = {}
     THEN /\ Idle(p)
          /\ resp' = [to |-> p, code |-> 200, message |-> "No pending jobs to process"]
     ELSE /\ \E i \in Oldest(Eligible) : job' = [job EXCEPT ![p] = JobView(i)]
          /\ now' = [now EXCEPT ![p] = clock]
          /\ pc' = [pc EXCEPT ![p] = "lock"]
          /\ resp' = NoResp
          /\ UNCHANGED <<forceFail, stuck>>
  /\ UNCHANGED <<jobs, clock, ticks, epc, ereq>>

\* the lock update: it changes the row when the row matches its filter, and the
\* call goes on to STEP 3 unless the store reports an error (lockError)
Lock(p, lockError) ==
  /\ pc[p] = "lock"
  /\ IF lockError
     THEN /\ Idle(p)
          /\ resp' =
               [to |-> p, code |-> 200, message |-> "Failed to lock job, another worker may have claimed it"]
          /\ UNCHANGED jobs
     ELSE /\ jobs' = IF LockMatches(job[p].id) THEN UpdateRow(job[p].id, LockFields(p)) ELSE jobs
          /\ pc' = [pc EXCEPT ![p] = "exec"]
          /\ now' = [now EXCEPT ![p] = 0]
          /\ resp' = NoResp
          /\ UNCHANGED <<forceFail, stuck, job>>
  /\ UNCHANGED <<clock, ticks, epc, ereq>>

\* a STEP 3 that calls the external API whatever force_fail says
SucceedIgnoringFlag(p, apiResult) ==
  /\ pc[p] = "exec"
  /\ jobs' = UpdateRow(job[p].id, SuccessFields(apiResult))
  /\ Idle(p)
  /\ resp' =
       [to |-> p, code |-> 200, message |-> "Job processed successfully",
        job_id |-> job[p].id, status |-> "completed"]
  /\ UNCHANGED <<clock, ticks, epc, ereq>>

\* STEP 3 and 4: the external call answers ok, the row is updated by id
Succeed(p, apiResult) ==
  /\ pc[p] = "exec"
  /\ ~forceFail[p]
  /\ jobs' = UpdateRow(job[p].id, SuccessFields(apiResult))
  /\ Idle(p)
  /\ resp' =
       [to |-> p, code |-> 200, message |-> "Job processed successfully",
        job_id |-> job[p].id, status |-> "completed"]
  /\ UNCHANGED <<clock, ticks, epc, ereq>>

\* STEP 3 and 5: the forced failure or a failed external call, the row is
\* updated by id from the snapshot's retry_count
Fail(p, message) ==
  /\ pc[p] = "exec"
  /\ forceFail[p] <=> message = ForcedMessage
  /\ LET newRetryCount == job[p].retry_count + 1
     IN IF Exhausted(newRetryCount, job[p].max_retries)
        THEN /\ jobs' = UpdateRow(job[p].id, DeadLetterFields(message, newRetryCount))
             /\ resp' =
                  [to |-> p, code |-> 200, message |-> "Job failed permanently, moved to dead letter queue",
                   job_id |-> job[p].id, status |-> "dead_letter", attempts |-> newRetryCount]
        ELSE /\ jobs' = UpdateRow(job[p].id, FailedFields(message, newRetryCount))
             /\ resp' =
                  [to |-> p, code |-> 200, message |-> "Job failed, retry scheduled",
                   job_id |-> job[p].id, status |-> "failed", retry_count |-> newRetryCount,
                   next_retry_at |-> calculateNextRetryTime(newRetryCount)]
  /\ Idle(p)
  /\ UNCHANGED <<clock, ticks, epc, ereq>>

\* the worker dies during the external call: no outcome is written
WorkerDies(p) ==
  /\ pc[p] = "exec"
  /\ Idle(p)
  /\ resp' = NoResp
  /\ UNCHANGED <<jobs, clock, ticks, epc, ereq>>

\* STEP 3 and 4 when the store rejects the success update: supabase-js returns
\* the error in its result, which the handler does not read, so the call
\* answers as Succeed does and the row stays as it was
SucceedWriteFails(p, apiResult) ==
  /\ pc[p] = "exec"
  /\ ~forceFail[p]
  /\ Idle(p)
  /\ resp' =
       [to |-> p, code |-> 200, message |-> "Job processed successfully",
        job_id |-> job[p].id, status |-> "completed"]
  /\ UNCHANGED <<jobs, clock, ticks, epc, ereq>>

\* STEP 3 and 5 when the store rejects the failure update (either branch): the
\* returned error is not read, the call answers as Fail does
FailWriteFails(p, message) ==
  /\ pc[p] = "exec"
  /\ forceFail[p] <=> message = ForcedMessage
  /\ LET newRetryCount == job[p].retry_count + 1
     IN IF Exhausted(newRetryCount, job[p].max_retries)
        THEN resp' =
               [to |-> p, code |-> 200, message |-> "Job failed permanently, moved to dead letter queue",
                job_id |-> job[p].id, status |-> "dead_letter", attempts |-> newRetryCount]
        ELSE resp' =
               [to |-> p, code |-> 200, message |-> "Job failed, retry scheduled",
                job_id |-> job[p].id, status |-> "failed", retry_count |-> newRetryCount,
                next_retry_at |-> calculateNextRetryTime(newRetryCount)]
  /\ Idle(p)
  /\ UNCHANGED <<jobs, clock, ticks, epc, ereq>>

\* ================================================================= status

StatusCallers == {"s1"}

\* the job_id of a status request: absent, or an id (0 is the id of no job)
StatusJobIds == {NULL} \cup {Some(i) : i \in 0..MaxJobs}

\* a lookup that ignores the id
FindJobAnyId(jobId) == JobIds

\* .from('jobs').select(...).eq('id', jobId)
FindJob(jobId) == {i \in JobIds : jobs[i].id = jobId}

\* a projection that adds the retry info to every pending job
StatusViewRetryInfoAlways(row) ==
  [job_id |-> row.id, status |-> row.status, query |-> row.query, created_at |-> row.created_at]
  @@ (IF row.status = "completed" /\ row.result # NULL
      THEN [result |-> row.result[1], completed_at |-> row.completed_at]
      ELSE <<>>)
  @@ (IF row.status \in {"failed", "dead_letter"}
      THEN [error_message |-> row.error_message, retry_count |-> row.retry_count,
            max_retries |-> row.max_retries]
      ELSE <<>>)
  @@ (IF row.status = "pending"
      THEN [retry_count |-> row.retry_count, max_retries |-> row.max_retries]
      ELSE <<>>)

\* the response object built from the row; `job.result` is truthy unless the
\* column is null (a stored result is the JSON object the external API sent)
StatusView(row) ==
  [job_id |-> row.id, status |-> row.status, query |-> row.query, created_at |-> row.created_at]
  @@ (IF row.status = "completed" /\ row.result # NULL
      THEN [result |-> row.result[1], completed_at |-> row.completed_at]
      ELSE <<>>)
  @@ (IF row.status \in {"failed", "dead_letter"}
      THEN [error_message |-> row.error_message, retry_count |-> row.retry_count,
            max_retries |-> row.max_retries]
      ELSE <<>>)
  @@ (IF row.status = "pending" /\ row.retry_count > 0
      THEN [retry_count |-> row.retry_count, max_retries |-> row.max_retries]
      ELSE <<>>)

\* the status handler: one select, no write
Status(c, job_id) ==
  /\ resp' =
       IF job_id = NULL
       THEN [to |-> c, code |-> 400, error |-> "job_id is required"]
       ELSE IF Cardinality(FindJob(job_id[1])) # 1   \* .single(): error unless one row
       THEN [to |-> c, code |-> 404, error |-> "Job not found"]
       ELSE [to |-> c, code |-> 200] @@ StatusView(jobs[CHOOSE i \in FindJob(job_id[1]) : TRUE])
  /\ UNCHANGED <<jobs, clock, ticks, pc, forceFail, stuck, now, job, epc, ereq>>

\* the instants at which a time comparison of the process handler changes:
\* next_retry_at <= now becomes true, locked_at < now - 600 s becomes true
Deadlines ==
  {jobs[i].next_retry_at[1] : i \in {k \in JobIds : jobs[k].next_retry_at # NULL}}
  \cup {jobs[i].locked_at[1] + StuckSeconds + 1 : i \in {k \in JobIds : jobs[k].locked_at # NULL}}

\* time passes: the clock moves to a later one of these instants
Tick(t, maxTicks) ==
  /\ t > clock
  /\ ticks < maxTicks
  /\ clock' = t
  /\ ticks' = ticks + 1
  /\ resp' = NoResp
  /\ UNCHANGED <<jobs, pc, forceFail, stuck, now, job, epc, ereq>>

\* the steps of the process calls of the workers W, of the enqueue calls of
\* the submitters S for the user ids U, and of the clock
NextOf(W, S, U, maxTicks) ==
  \/ \E e \in S, q \in Queries, u \in U : EnqueueLookup(e, q, u)
  \/ \E e \in S : EnqueueInsert(e)
  \/ \E p \in W, ff \in BOOLEAN : ReapSelect(p, ff)
  \/ \E p \in W : ReapUpdate(p)
  \/ \E p \in W : Pick(p)
  \/ \E p \in W, lockError \in BOOLEAN : Lock(p, lockError)
  \/ \E p \in W, r \in ApiResults : Succeed(p, r)
  \/ \E p \in W, m \in ApiErrors \cup {ForcedMessage} : Fail(p, m)
  \/ \E p \in W : WorkerDies(p)
  \/ \E t \in Deadlines : Tick(t, maxTicks)

\* two workers race for the jobs of one submitter
Spec == Init /\ [][NextOf(Workers, {"e1"}, {""}, MaxTicks)]_vars

\* two submitters race, with and without a user id, one worker processes
SpecSubmit == Init /\ [][NextOf({"w1"}, Submitters, UserIds, MaxTicksSubmit)]_vars

\* one worker and one submitter, over a long time
SpecSolo == Init /\ [][NextOf({"w1"}, {"e1"}, {""}, MaxTicksSolo)]_vars

\* one worker and one submitter, with a store that may reject the update that
\* records an outcome
NextStore ==
  \/ NextOf({"w1"}, {"e1"}, {""}, MaxTicksSolo)
  \/ \E r \in ApiResults : SucceedWriteFails("w1", r)
  \/ \E m \in ApiErrors \cup {ForcedMessage} : FailWriteFails("w1", m)
SpecStore == Init /\ [][NextStore]_vars

\* two workers and one submitter, and status requests at any moment
NextStatus ==
  \/ NextOf(Workers, {"e1"}, {""}, MaxTicksStatus)
  \/ \E c \in StatusCallers, j \in StatusJobIds : Status(c, j)
SpecStatus == Init /\ [][NextStatus]_vars

\* one worker and one submitter, and a table that also holds a job with a
\* timeout_seconds of its own
NextTimeout ==
  \/ NextOf({"w1"}, {"e1"}, {""}, MaxTicksSubmit)
  \/ \E ts \in DirectTimeouts : SqlInsert(ts)
SpecTimeout == Init /\ [][NextTimeout]_vars

\* two submitters, one of which may send the user id "anonymous", one worker
SpecKeys == Init /\ [][NextOf({"w1"}, Submitters, KeyUserIds, MaxTicksSubmit)]_vars

\* a step of a process call of worker p
ProcessStep(p) ==
  \/ \E ff \in BOOLEAN : ReapSelect(p, ff)
  \/ ReapUpdate(p)
  \/ Pick(p)
  \/ \E lockError \in BOOLEAN : Lock(p, lockError)
  \/ \E r \in ApiResults : Succeed(p, r)
  \/ \E m \in ApiErrors \cup {ForcedMessage} : Fail(p, m)
  \/ WorkerDies(p)

\* one worker and one submitter, where process calls keep being made (a call
\* in progress takes its next step or its worker dies, and a new call starts
\* when none is in progress) and time keeps advancing to the next deadline
NextLive == NextOf({"w1"}, {"e1"}, {""}, MaxTicksLive)
SpecLive ==
  /\ Init
  /\ [][NextLive]_vars
  /\ WF_vars(ProcessStep("w1"))
  /\ WF_vars(\E t \in Deadlines : Tick(t, MaxTicksLive))

\* SpecLive with a store that does not reject the lock update for ever: of the
\* calls that reach the lock update, some have it accepted
SpecFair ==
  /\ Init
  /\ [][NextLive]_vars
  /\ WF_vars(ProcessStep("w1"))
  /\ WF_vars(\E t \in Deadlines : Tick(t, MaxTicksLive))
  /\ SF_vars(Lock("w1", FALSE))

\* ================================================================= claims

Terminal == {"completed", "dead_letter"}
FailMessages == ApiErrors \cup {ForcedMessage}

\* C1: of two process calls that select the same single eligible job, only the
\* one whose lock update changes the row goes on to execute the job: a call
\* passes from the lock update to STEP 3 only if the row was pending or failed
\* at its update and is locked by that call afterwards.
C1_OnlyTheClaimantExecutes ==
  [][\A p \in Workers :
       (pc[p] = "lock" /\ pc'[p] = "exec")
       => /\ jobs[job[p].id].status \in {"pending", "failed"}
          /\ jobs'[job[p].id].locked_by = Some(p)]_vars

\* C2: for every job, locked_at is set iff locked_by is set iff the status is
\* processing.
C2_LockFieldsMatchStatus ==
  \A i \in JobIds :
    /\ (jobs[i].locked_at # NULL) <=> (jobs[i].locked_by # NULL)
    /\ (jobs[i].locked_by # NULL) <=> (jobs[i].status = "processing")

\* C2 witness: a job that was released once and is claimed again, while the
\* other worker is inside a process call
C2_Witness ==
  \E i \in JobIds :
    /\ jobs[i].status = "processing"
    /\ jobs[i].locked_at # NULL
    /\ jobs[i].retry_count > 0
    /\ \E p \in Workers : jobs[i].locked_by # Some(p) /\ pc[p] = "exec"

\* C3: every job has retry_count <= max_retries.
C3_RetryCountBounded ==
  \A i \in JobIds : jobs[i].retry_count <= jobs[i].max_retries

\* C4: once a job is completed or dead_letter, no step changes its status.
C4_TerminalStaysTerminal ==
  [][\A i \in JobIds :
       jobs[i].status \in Terminal => jobs'[i].status = jobs[i].status]_vars

\* C5: every change of a job's status is a claim (pending or failed to
\* processing), an outcome (processing to completed, failed or dead_letter) or
\* a reaper release (processing to pending or dead_letter).
C5_AllowedTransitions ==
  [][\A i \in JobIds :
       jobs'[i].status # jobs[i].status
       => <<jobs[i].status, jobs'[i].status>> \in
            { <<"pending", "processing">>, <<"failed", "processing">>,
              <<"processing", "completed">>, <<"processing", "failed">>,
              <<"processing", "dead_letter">>, <<"processing", "pending">> }]_vars

\* C6: a submission whose key matches a job that is pending or processing
\* answers with that job's id and status, inserts no row and changes no row.
C6_DuplicateReturnsExisting ==
  [][\A e \in Submitters, q \in Queries, u \in UserIds :
       ( /\ EnqueueLookup(e, q, u)
         /\ q # ""
         /\ \E i \in JobIds : /\ jobs[i].idempotency_key = IdempotencyKey(u, q)
                              /\ jobs[i].status \in {"pending", "processing"} )
       => /\ jobs' = jobs
          /\ epc'[e] = "idle"
          /\ resp'.to = e
          /\ "job_id" \in DOMAIN resp'
          /\ \E i \in JobIds : /\ jobs[i].idempotency_key = IdempotencyKey(u, q)
                               /\ jobs[i].status \in {"pending", "processing"}
                               /\ resp'.job_id = jobs[i].id
                               /\ resp'.status = jobs[i].status]_vars

\* C6 witness: a duplicate submission answered while the job is processing
C6_Witness ==
  /\ resp.to \in Submitters
  /\ "job_id" \in DOMAIN resp
  /\ resp.message = "Job already exists"
  /\ resp.status = "processing"
  /\ jobs[resp.job_id].status = "processing"

\* C7: no two jobs that are pending or processing have the same
\* idempotency key.
C7_OneActiveJobPerKey ==
  \A i, k \in JobIds :
    ( /\ i # k
      /\ jobs[i].status \in {"pending", "processing"}
      /\ jobs[k].status \in {"pending", "processing"} )
    => jobs[i].idempotency_key # jobs[k].idempotency_key

\* C7 witness: a submission found no active job and is about to insert, while
\* the other submission's row with the same key is already there and active
C7_Witness ==
  \E e \in Submitters, i \in JobIds :
    /\ epc[e] = "insert"
    /\ jobs[i].idempotency_key = ereq[e].key
    /\ jobs[i].status \in {"pending", "processing"}

\* C8: when the jobs with a submission's key are all completed, dead_letter or
\* failed, the submission inserts a new pending job and answers 201 with its id.
C8_ResubmitCreatesJob ==
  [][\A e \in Submitters :
       ( /\ epc[e] = "insert"
         /\ epc'[e] = "idle"
         /\ \E i \in JobIds : jobs[i].idempotency_key = ereq[e].key
         /\ \A i \in JobIds : jobs[i].idempotency_key = ereq[e].key
                              => jobs[i].status \in {"completed", "dead_letter", "failed"} )
       => /\ resp'.code = 201
          /\ Len(jobs') = Len(jobs) + 1
          /\ jobs'[Len(jobs')].status = "pending"
          /\ resp'.job_id = jobs'[Len(jobs')].id]_vars

\* C9: the failure outcome that brings retry_count to 1 sets next_retry_at to
\* the failure time plus 10 s, the one that brings it to 2 to the failure time
\* plus 20 s.
C9_BackoffTenTwenty ==
  [][\A p \in Workers, m \in FailMessages :
       Fail(p, m)
       => LET row == jobs'[job[p].id]
          IN /\ (row.status = "failed" /\ row.retry_count = 1)
                  => row.next_retry_at = Some(clock + BaseDelaySec)
             /\ (row.status = "failed" /\ row.retry_count = 2)
                  => row.next_retry_at = Some(clock + 2 * BaseDelaySec)]_vars

\* C10: a failure outcome writes the incremented retry_count, and the status
\* dead_letter (with an error_message) when that count is >= max_retries and
\* failed otherwise; with max_retries = 3 the failures that bring the count to 1
\* and to 2 leave the job failed and the one that brings it to 3 leaves it
\* dead_letter; and no job is failed with retry_count >= max_retries.
C10_DeadLetterAtMaxRetries ==
  [][ /\ \A p \in Workers, m \in FailMessages :
           Fail(p, m)
           => LET row == jobs'[job[p].id]
                  n == job[p].retry_count + 1
              IN /\ row.retry_count = n
                 /\ row.error_message = Some(m)
                 /\ (n >= jobs[job[p].id].max_retries) <=> (row.status = "dead_letter")
                 /\ (n < jobs[job[p].id].max_retries) <=> (row.status = "failed")
                 /\ (jobs[job[p].id].max_retries = 3 /\ n \in {1, 2}) => row.status = "failed"
                 /\ (jobs[job[p].id].max_retries = 3 /\ n = 3) => row.status = "dead_letter"
      /\ \A i \in 1..Len(jobs') :
           jobs'[i].status = "failed" => jobs'[i].retry_count < jobs'[i].max_retries ]_vars

\* C10 witness: a job that failed three times and was dead-lettered by its
\* third failure
C10_Witness ==
  \E i \in JobIds :
    /\ jobs[i].status = "dead_letter"
    /\ jobs[i].retry_count = 3
    /\ jobs[i].error_message = Some(ForcedMessage)
    /\ resp.to \in Workers
    /\ resp.message = "Job failed permanently, moved to dead letter queue"

\* C11: no job is moved to processing at a time earlier than its
\* next_retry_at: a step that changes a job's status to processing is taken
\* only when the job's next_retry_at is null or not later than the current
\* time, under every interleaving of process calls.
C11_NoClaimBeforeNextRetryAt ==
  [][\A i \in JobIds :
       (jobs[i].status # "processing" /\ jobs'[i].status = "processing")
       => (jobs[i].next_retry_at = NULL \/ jobs[i].next_retry_at[1] <= clock)]_vars

\* a processing job whose locked_at is older than its timeout_seconds
LockStale(i) ==
  /\ jobs[i].status = "processing"
  /\ jobs[i].locked_at # NULL
  /\ jobs[i].locked_at[1] + jobs[i].timeout_seconds < clock

\* C12: when the reaper updates a processing job whose lock is older than its
\* timeout, the job becomes pending with retry_count + 1, a next_retry_at in
\* the future and no lock if retry_count < max_retries, and dead_letter with
\* no lock and completed_at set if retry_count = max_retries; a reaper update
\* leaves every processing job whose lock is not older than its timeout as
\* it is.
C12_ReaperOutcome ==
  [][\A p \in Workers :
       ReapUpdate(p)
       => LET i == Head(stuck[p]).id
              old == jobs[i]
              new == jobs'[i]
          IN /\ (LockStale(i) /\ old.retry_count < old.max_retries)
                  => /\ new.status = "pending"
                     /\ new.retry_count = old.retry_count + 1
                     /\ new.next_retry_at # NULL
                     /\ new.next_retry_at[1] > clock
                     /\ new.locked_at = NULL
                     /\ new.locked_by = NULL
             /\ (LockStale(i) /\ old.retry_count = old.max_retries)
                  => /\ new.status = "dead_letter"
                     /\ new.locked_at = NULL
                     /\ new.locked_by = NULL
                     /\ new.completed_at # NULL
             /\ \A k \in JobIds :
                  (jobs[k].status = "processing" /\ ~LockStale(k)) => jobs'[k] = jobs[k]]_vars

\* job i exists and is processing
Processing(i) == i \in JobIds /\ jobs[i].status = "processing"

\* C13: no job stays in processing forever: when process calls keep being
\* made and time advances, every job that is processing is later not
\* processing, also when the worker that claimed it dies without writing an
\* outcome.
C13_ProcessingEnds ==
  \A i \in 1..MaxJobs :
    Processing(i) ~> ~Processing(i)

\* C13 witness: a job whose worker died and that a later process call's reaper
\* released
C13_Witness ==
  \E i \in JobIds :
    /\ jobs[i].status = "pending"
    /\ jobs[i].error_message = Some("Job timed out, will retry")
    /\ jobs[i].locked_at = NULL
    /\ clock > StuckSeconds

\* C14: for every job, error_message is set iff the status is failed or
\* dead_letter; a pending, processing or completed job has no error_message.
C14_ErrorMessageIffFailed ==
  \A i \in JobIds :
    (jobs[i].error_message # NULL) <=> (jobs[i].status \in {"failed", "dead_letter"})

\* C15: for every job, the status is completed iff result and completed_at
\* are both set, and a completed job has no error_message.
C15_CompletedIffResult ==
  \A i \in JobIds :
    /\ (jobs[i].status = "completed")
         <=> (jobs[i].result # NULL /\ jobs[i].completed_at # NULL)
    /\ (jobs[i].status = "completed") => (jobs[i].error_message = NULL)

\* C16: when the store write that records an outcome fails, the process call
\* answers with an internal failure (500), and an outcome summary sent by a
\* process call names the status that the stored job has after the call's
\* write.
C16_FailedWriteNotReported ==
  [][\A p \in Workers :
       /\ ( \/ \E r \in ApiResults : SucceedWriteFails(p, r)
            \/ \E m \in FailMessages : FailWriteFails(p, m) )
          => resp'.code = 500
       /\ (resp'.to = p /\ "status" \in DOMAIN resp')
          => jobs'[resp'.job_id].status = resp'.status]_vars

\* C17: a status request changes no job record, and for an id that matches no
\* job it answers 404 and not a job view.
C17_StatusReadOnly ==
  [][\A c \in StatusCallers, j \in StatusJobIds :
       Status(c, j)
       => /\ jobs' = jobs
          /\ (j # NULL /\ \A i \in JobIds : jobs[i].id # j[1])
               => /\ resp'.code = 404
                  /\ "job_id" \notin DOMAIN resp'
                  /\ "status" \notin DOMAIN resp']_vars

\* C17 witness: a status request for an unknown id answered 404 while the one
\* job is being processed
C17_Witness ==
  /\ resp.to \in StatusCallers
  /\ resp.code = 404
  /\ \E i \in JobIds : jobs[i].status = "processing"
  /\ \E p \in Workers : pc[p] = "exec"

\* C18: the status view of an existing job contains result exactly when the
\* job is completed, error_message exactly when it is failed or dead_letter,
\* and retry_count and max_retries exactly when it is failed, dead_letter or
\* pending with retry_count > 0; the fields it contains have the job's values.
C18_StatusViewFields ==
  [][\A c \in StatusCallers, j \in StatusJobIds :
       (Status(c, j) /\ j # NULL /\ \E i \in JobIds : jobs[i].id = j[1])
       => LET row == jobs[CHOOSE i \in JobIds : jobs[i].id = j[1]]
              D == DOMAIN resp'
              retryInfo == \/ row.status \in {"failed", "dead_letter"}
                           \/ (row.status = "pending" /\ row.retry_count > 0)
          IN /\ resp'.code = 200 /\ resp'.job_id = row.id /\ resp'.status = row.status
             /\ ("result" \in D) <=> (row.status = "completed")
             /\ ("error_message" \in D) <=> (row.status \in {"failed", "dead_letter"})
             /\ ("retry_count" \in D) <=> retryInfo
             /\ ("max_retries" \in D) <=> retryInfo
             /\ ("result" \in D) => resp'.result = row.result[1]
             /\ ("error_message" \in D) => resp'.error_message = row.error_message
             /\ ("retry_count" \in D) => resp'.retry_count = row.retry_count
             /\ ("max_retries" \in D) => resp'.max_retries = row.max_retries]_vars

\* C18 witness: the view of a job that the reaper returned to pending, with
\* retry info and without error_message
C18_Witness ==
  /\ resp.to \in StatusCallers
  /\ resp.code = 200
  /\ resp.status = "pending"
  /\ "retry_count" \in DOMAIN resp
  /\ "error_message" \notin DOMAIN resp
  /\ jobs[resp.job_id].error_message # NULL

\* C19: a submission with an empty query is answered 400 and inserts no job;
\* every job that a step creates has status pending, retry_count 0,
\* max_retries 3, timeout_seconds 600 and no lock, result or error_message.
C19_ValidationAndDefaults ==
  [][ /\ \A e \in Submitters, u \in UserIds :
           EnqueueLookup(e, "", u)
           => /\ resp'.to = e
              /\ resp'.code = 400
              /\ jobs' = jobs
              /\ epc'[e] = "idle"
      /\ Len(jobs') # Len(jobs)
           => LET row == jobs'[Len(jobs')]
              IN /\ Len(jobs') = Len(jobs) + 1
                 /\ row.query # ""
                 /\ row.status = "pending"
                 /\ row.retry_count = 0
                 /\ row.max_retries = 3
                 /\ row.timeout_seconds = 600
                 /\ row.locked_at = NULL
                 /\ row.locked_by = NULL
                 /\ row.result = NULL
                 /\ row.error_message = NULL ]_vars

\* C19 witness: an empty submission rejected after two jobs were created
C19_Witness ==
  /\ resp.to \in Submitters
  /\ resp.code = 400
  /\ Len(jobs) = 2
  /\ \E i \in JobIds : jobs[i].status = "pending" /\ jobs[i].user_id # NULL

\* C20: every dead_letter job has no next_retry_at.
C20_DeadLetterNoNextRetry ==
  \A i \in JobIds : jobs[i].status = "dead_letter" => jobs[i].next_retry_at = NULL

C22_SameBackoff ==
  [][\A p \in Workers :
       /\ (ReapUpdate(p) /\ jobs'[Head(stuck[p]).id].status = "pending")
            => LET new == jobs'[Head(stuck[p]).id]
               IN new.next_retry_at = FailedFields("", new.retry_count).next_retry_at
       /\ \A m \in FailMessages :
            (Fail(p, m) /\ jobs'[job[p].id].status = "failed")
            => LET new == jobs'[job[p].id]
               IN new.next_retry_at
                    = ReapRetryFields([retry_count |-> new.retry_count - 1]).next_retry_at]_vars

\* C23: a process call that no other process call interferes with selects,
\* when some job is eligible, an eligible job of least created_at, its lock
\* update claims that job and changes no other job, and a job becomes
\* processing only by the one lock update of a call, so a call claims at most
\* one job.
C23_ClaimsOldestEligible ==
  [][\A p \in Workers :
       /\ (Pick(p) /\ Eligible # {})
            => /\ pc'[p] = "lock"
               /\ job'[p].id \in Eligible
               /\ \A k \in Eligible : jobs[job'[p].id].created_at <= jobs[k].created_at
       /\ Lock(p, FALSE)
            => /\ pc'[p] = "exec"
               /\ jobs'[job[p].id].status = "processing"
               /\ jobs'[job[p].id].locked_by = Some(p)
               /\ \A k \in JobIds : k # job[p].id => jobs'[k] = jobs[k]
       /\ \A i \in JobIds :
            (jobs[i].status # "processing" /\ jobs'[i].status = "processing")
            => \E w \in Workers : pc[w] = "lock" /\ pc'[w] = "exec" /\ job[w].id = i]_vars

\* C23 witness: a call has selected the older of two eligible jobs
C23_Witness ==
  \E p \in Workers, k \in JobIds :
    /\ pc[p] = "lock"
    /\ job[p].id \in Eligible
    /\ k \in Eligible
    /\ jobs[k].created_at > jobs[job[p].id].created_at
    /\ now[p] = clock

\* C24: a process call that finds no stale processing job and no eligible job
\* changes no job record: its stuck-job select and its job select write
\* nothing, it answers 200 "No pending jobs to process", and it ends with the
\* worker as it was before the call, so that repeating it changes nothing.
C24_NothingEligibleIsNoOp ==
  [][\A p \in Workers :
       /\ \A ff \in BOOLEAN :
            (ReapSelect(p, ff) /\ StuckRows = {})
            => /\ jobs' = jobs
               /\ pc'[p] = "pick"
       /\ (Pick(p) /\ Eligible = {})
            => /\ jobs' = jobs
               /\ resp' = [to |-> p, code |-> 200, message |-> "No pending jobs to process"]
               /\ pc'[p] = "idle"
               /\ job'[p] = NoJob
               /\ stuck'[p] = <<>>
               /\ forceFail'[p] = FALSE]_vars

\* C24 witness: a call answered that nothing is eligible while the one job
\* waits for its next_retry_at
C24_Witness ==
  /\ resp.to \in Workers
  /\ resp.message = "No pending jobs to process"
  /\ \E i \in JobIds : /\ jobs[i].status = "failed"
                        /\ jobs[i].next_retry_at # NULL
                        /\ jobs[i].next_retry_at[1] > clock

\* C25: no step deletes a job or changes a job's id, query, idempotency_key,
\* max_retries, timeout_seconds or created_at: the table only grows and every
\* job keeps these fields.
C25_CreationFieldsKept ==
  [][ /\ Len(jobs') >= Len(jobs)
      /\ \A i \in JobIds :
           /\ jobs'[i].id = jobs[i].id
           /\ jobs'[i].query = jobs[i].query
           /\ jobs'[i].idempotency_key = jobs[i].idempotency_key
           /\ jobs'[i].max_retries = jobs[i].max_retries
           /\ jobs'[i].timeout_seconds = jobs[i].timeout_seconds
           /\ jobs'[i].created_at = jobs[i].created_at ]_vars

\* C25 witness: a job that a reaper released and that later failed again,
\* with the fields of its creation
C25_Witness ==
  \E i \in JobIds :
    /\ jobs[i].status \in {"failed", "dead_letter"}
    /\ jobs[i].retry_count >= 2
    /\ jobs[i].error_message \in {Some(m) : m \in FailMessages}
    /\ clock > StuckSeconds
    /\ jobs[i].id = i
    /\ jobs[i].query = "q"
    /\ jobs[i].idempotency_key = IdempotencyKey("", "q")
    /\ jobs[i].max_retries = DefaultMaxRetries
    /\ jobs[i].timeout_seconds = DefaultTimeoutSeconds
    /\ jobs[i].created_at = 0

\* C26: a process call with force_fail set that reaches STEP 3 and does not
\* die there does not call the external API: it writes the failure outcome
\* with the forced error as error_message, retry_count one above the count it
\* read, and status failed or dead_letter, never completed; and the steps of
\* such a call that select or fail to lock write nothing.
C26_ForcedFailure ==
  [][\A p \in Workers :
       /\ (pc[p] = "exec" /\ forceFail[p] /\ pc'[p] # "exec" /\ ~WorkerDies(p))
            => LET row == jobs'[job[p].id]
               IN /\ row.status \in {"failed", "dead_letter"}
                  /\ row.retry_count = job[p].retry_count + 1
                  /\ row.error_message = Some(ForcedMessage)
                  /\ resp'.to = p
                  /\ resp'.status = row.status
       /\ (ReapSelect(p, TRUE) \/ (forceFail[p] /\ (Pick(p) \/ Lock(p, TRUE))))
            => jobs' = jobs]_vars

\* C26 witness: a forced failure answered with a retry, the job failed with
\* the forced error
C26_Witness ==
  /\ resp.to \in Workers
  /\ resp.message = "Job failed, retry scheduled"
  /\ jobs[resp.job_id].status = "failed"
  /\ jobs[resp.job_id].error_message = Some(ForcedMessage)
  /\ jobs[resp.job_id].retry_count = resp.retry_count

\* C27: a job's retry_count never decreases: every step leaves every job's
\* retry_count equal to or greater than before.
C27_RetryCountNeverDecreases ==
  [][\A i \in JobIds : jobs'[i].retry_count >= jobs[i].retry_count]_vars

\* job i exists and is completed or dead_letter
Finished(i) == i \in JobIds /\ jobs[i].status \in Terminal

\* C28: every submitted job eventually is completed or dead_letter, when
\* process calls keep being made, time keeps advancing and every external
\* call ends in success, in failure or with the death of its worker; and a
\* job that is not yet finished has retry_count <= max_retries, so that it is
\* claimed at most max_retries + 1 times, every claim that does not complete
\* it adding one to retry_count.
C28_EveryJobFinishes ==
  /\ \A i \in 1..MaxJobs : (i \in JobIds) ~> Finished(i)
  /\ [](\A i \in JobIds : ~Finished(i) => jobs[i].retry_count <= jobs[i].max_retries)

\* C28 witness: a job whose attempts all timed out or failed, dead-lettered
\* by the reaper
C28_Witness ==
  \E i \in JobIds :
    /\ jobs[i].status = "dead_letter"
    /\ jobs[i].error_message = Some("Job timed out after maximum retries")
    /\ jobs[i].retry_count = jobs[i].max_retries

\* C29: a submission is answered with an existing job only if that job has
\* the submission's user id (or both have none) and the submission's query.
C29_KeyDistinguishesSubmitters ==
  [][\A e \in Submitters, q \in Queries, u \in KeyUserIds :
       (EnqueueLookup(e, q, u) /\ "job_id" \in DOMAIN resp')
       => /\ jobs[resp'.job_id].user_id = (IF u # "" THEN Some(u) ELSE NULL)
          /\ jobs[resp'.job_id].query = q]_vars
====
